---- MODULE Spec2Model ----
(***************************************************************************)
(* secret-santa (src/main.rs): the run of `main` from the parsed Input to  *)
(* the chosen solution.  The state is the Input record, the constraints    *)
(* accumulated in the satoxid Encoder, the loop counter of the `0..100`    *)
(* loop, and the `solutions` vector.  The SAT backend is modelled by its    *)
(* contract: solve() returns some total truth assignment of the literals   *)
(* introduced so far that satisfies every added constraint, or None.       *)
(***************************************************************************)
EXTENDS Integers, Sequences, FiniteSets

VARIABLES
    input,       \* the Input read from the file
    pc,          \* where main is: "parsed", "checked", "loop", "select",
                 \* "chosen", "done", "exit1", "history_panic", "compose_panic"
    encoder,     \* the constraints added to the Encoder so far
    attempt,     \* iterations of `for _ in 0..100` completed; each iteration
                 \* calls encoder.solve() once, so also the number of solves
    solutions,   \* the `solutions` vector
    nUnsat,      \* how many of the solves returned None
    firstUnsat,  \* the iteration (1-based) of the first None, 0 if none yet
    chosen       \* {} until a solution is drawn, then {the drawn solution}

vars == <<input, pc, encoder, attempt, solutions, nUnsat, firstUnsat, chosen>>

(* ------------------------------ bounds --------------------------------- *)
\* Largest roster
MaxPeople == 3
\* How many items the four rule lists (whitelist, blacklist, blacklist_sets,
\* history) of an Input hold together.
MaxRules == 1

(* ------------------------- program constants --------------------------- *)
\* `for _ in 0..100`
MaxAttempts == 100

(* ------------------------------ data ----------------------------------- *)
\* The names a rule of an Input with the roster 1..n may use: the n people
\* and one name that is no person's
Names(n) == 1..(n + 1)

\* Pair<T> { giver, receiver }: <<giver, receiver>>
Pair(x, y) == <<x, y>>

\* The pairs of two different names
Pairs(n) == {Pair(x, y) : x \in Names(n), y \in Names(n)} \ {Pair(x, x) : x \in Names(n)}

Range(s) == {s[i] : i \in 1..Len(s)}

Min(S) == CHOOSE x \in S : \A y \in S : x <= y

\* The names of S as a Vec<String>, in ascending order
RECURSIVE AsVec(_)
AsVec(S) == IF S = {} THEN <<>> ELSE <<Min(S)>> \o AsVec(S \ {Min(S)})

\* Some order of the elements of S (the order of a rule list in the file)
RECURSIVE AsList(_)
AsList(S) ==
    IF S = {} THEN <<>>
    ELSE LET x == CHOOSE y \in S : TRUE IN <<x>> \o AsList(S \ {x})

\* One item of one of the four rule lists of the Input: a whitelist or a
\* blacklist pair (names = the pair), a blacklist set of two or more names
\* (names = its Vec<String>), or a history entry of one pair (flag =
\* exclude_pairs, names = the pair).
RuleItems(n) ==
    [list : {"whitelist", "blacklist"}, flag : {FALSE}, names : Pairs(n)]
    \cup [list : {"blacklist_sets"}, flag : {FALSE},
          names : {AsVec(S) : S \in {T \in SUBSET Names(n) : Cardinality(T) >= 2}}]
    \cup [list : {"history"}, flag : BOOLEAN, names : Pairs(n)]

\* The sets of at most k rule items
RECURSIVE RuleSets(_, _)
RuleSets(n, k) ==
    IF k = 0 THEN {{}}
    ELSE LET prev == RuleSets(n, k - 1)
         IN  prev \cup {S \cup {it} : S \in prev, it \in RuleItems(n)}

Of(S, list) == {it \in S : it.list = list}

\* struct Solution { year, exclude_pairs, pairs }: the entries of the file get
\* the years 1, 2, ... in file order
HistoryOf(items) ==
    [i \in 1..Len(items) |->
        [year |-> i,
         exclude_pairs |-> items[i].flag,
         pairs |-> {items[i].names}]]

\* struct Input: the roster 1..n (names unique) and the rule lists made of S
InputOf(n, S) ==
    [people |-> [i \in 1..n |-> i],
     whitelist |-> {it.names : it \in Of(S, "whitelist")},
     blacklist |-> {it.names : it \in Of(S, "blacklist")},
     blacklist_sets |-> AsList({it.names : it \in Of(S, "blacklist_sets")}),
     history |-> HistoryOf(AsList(Of(S, "history")))]

(* ------------------------------ encoder -------------------------------- *)
\* Encoder<Pair<T>, _>: the literals introduced and the constraints added.
\*   exactly1 : the literal sets of the ExactlyK { k: 1, lits } constraints
\*   nots     : literals under a Not(Or(lits))       (each is false)
\*   ands     : literals under an And(lits)          (each is true)
\*   ifs      : <<cond, then>> of If { cond, then: Not(then) }
\*   nands    : the literal sets of the Not(And(lits)) constraints
NewEncoder ==
    [vars |-> {}, exactly1 |-> {}, nots |-> {}, ands |-> {}, ifs |-> {}, nands |-> {}]

AddNotOr(enc, lits) ==
    [enc EXCEPT !.vars = @ \cup lits, !.nots = @ \cup lits]

AddAnd(enc, lits) ==
    [enc EXCEPT !.vars = @ \cup lits, !.ands = @ \cup lits]

AddNotAnd(enc, lits) ==
    [enc EXCEPT !.vars = @ \cup lits, !.nands = @ \cup {lits}]

\* encode_secret_santa_rules without its "Don't have small cycles" loop
EncodeSecretSantaRules_NoSmallCycles(universe, enc) ==
    LET len == Len(universe)
        givers == {{Pair(universe[p], universe[x]) : x \in 1..len} : p \in 1..len}
        receivers == {{Pair(universe[x], universe[p]) : x \in 1..len} : p \in 1..len}
        selfs == {Pair(universe[p], universe[p]) : p \in 1..len}
    IN  [vars |-> enc.vars \cup UNION (givers \cup receivers) \cup selfs,
         exactly1 |-> enc.exactly1 \cup givers \cup receivers,
         nots |-> enc.nots \cup selfs,
         ands |-> enc.ands,
         ifs |-> enc.ifs,
         nands |-> enc.nands]

\* encode_secret_santa_rules(universe, encoder)
EncodeSecretSantaRules(universe, enc) ==
    LET len == Len(universe)
        \* Each person is someone's giver.
        givers == {{Pair(universe[p], universe[x]) : x \in 1..len} : p \in 1..len}
        \* Each person is someone's receiver.
        receivers == {{Pair(universe[x], universe[p]) : x \in 1..len} : p \in 1..len}
        \* No one can give to themselves.
        selfs == {Pair(universe[p], universe[p]) : p \in 1..len}
        \* Don't have small cycles: j runs over p..len, so j = p is included.
        small == UNION {{<<Pair(universe[p], universe[j]), Pair(universe[j], universe[p])>> :
                            j \in p..len} : p \in 1..len}
        lits == UNION (givers \cup receivers)
    IN  [vars |-> enc.vars \cup lits \cup selfs,
         exactly1 |-> enc.exactly1 \cup givers \cup receivers,
         nots |-> enc.nots \cup selfs,
         ands |-> enc.ands,
         ifs |-> enc.ifs \cup small,
         nands |-> enc.nands]

\* include_pairs forcing each pair in the opposite direction
IncludePairs_Swapped(lits, enc) == AddAnd(enc, {Pair(l[2], l[1]) : l \in lits})

\* include_pairs(lits, encoder): And(lits)
IncludePairs(lits, enc) == AddAnd(enc, lits)

\* exclude_pairs(lits, encoder): Not(Or(lits))
ExcludePairs(lits, enc) == AddNotOr(enc, lits)

\* exclude_some_pairs(lits, encoder): Not(And(lits)); main never calls it
ExcludeSomePairs(lits, enc) == AddNotAnd(enc, lits)

\* exclude_pairs_symmetric without its second, swapped exclude_pairs call
ExcludePairsSymmetric_OneWay(lits, enc) == ExcludePairs(lits, enc)

\* exclude_pairs_symmetric(lits, encoder)
ExcludePairsSymmetric(lits, enc) ==
    ExcludePairs({Pair(l[2], l[1]) : l \in lits}, ExcludePairs(lits, enc))

\* exclude_sets(people, encoder): accum holds (people[x], people[y]), x <= y
ExcludeSets(people, enc) ==
    LET len == Len(people)
        accum == UNION {{Pair(people[x], people[y]) : y \in x..len} : x \in 1..len}
    IN  ExcludePairsSymmetric(accum, enc)

(* ------------------------------- solve --------------------------------- *)
\* Model<V>: a truth value for every literal of the encoder
Satisfies(m, enc) ==
    /\ \A L \in enc.exactly1 : Cardinality({l \in L : m[l]}) = 1
    /\ \A l \in enc.nots : ~m[l]
    /\ \A l \in enc.ands : m[l]
    /\ \A c \in enc.ifs : m[c[1]] => ~m[c[2]]
    /\ \A L \in enc.nands : \E l \in L : ~m[l]

\* One ExactlyK constraint L applied to a partial assignment q (q.t true,
\* q.f false): the partial assignments that extend q and decide all of L.
Decide(q, L) ==
    LET tl == L \cap q.t
    IN  IF Cardinality(tl) > 1 THEN {}
        ELSE IF Cardinality(tl) = 1 THEN {[t |-> q.t, f |-> q.f \cup (L \ tl)]}
        ELSE {[t |-> q.t \cup {l}, f |-> q.f \cup (L \ {l})] : l \in L \ q.f}

RECURSIVE DecideAll(_, _)
DecideAll(qs, Ls) ==
    IF Ls = {} \/ qs = {} THEN qs
    ELSE LET L == CHOOSE x \in Ls : TRUE
         IN  DecideAll(UNION {Decide(q, L) : q \in qs}, Ls \ {L})

\* encoder.solve(): every model the backend may return; {} when it returns
\* None.  The forced literals are fixed, the ExactlyK constraints are
\* branched on, the literals left open take both values, and each candidate
\* is kept only if it satisfies the whole formula.
Models(enc) ==
    IF enc.ands \cap enc.nots # {} THEN {}
    ELSE LET qs == DecideAll({[t |-> enc.ands, f |-> enc.nots]}, enc.exactly1)
             cands == UNION {{[v \in enc.vars |-> v \in (q.t \cup s)] :
                                 s \in SUBSET (enc.vars \ (q.t \cup q.f))} : q \in qs}
         IN  {m \in cands : Satisfies(m, enc)}

\* extract_pos(model): the literals the model marks true
ExtractPos(m) == {v \in DOMAIN m : m[v]}

(* ------------------------------- main ---------------------------------- *)
PeopleNames == Range(input.people)

\* Input::check_history: every giver and receiver of every history entry,
\* flagged or not, is the name of a person
CheckHistory(inp) ==
    \A i \in 1..Len(inp.history) : \A pair \in inp.history[i].pairs :
        /\ \E p \in 1..Len(inp.people) : inp.people[p] = pair[1]
        /\ \E p \in 1..Len(inp.people) : inp.people[p] = pair[2]

\* for blacklist_set in &input.blacklist_sets { exclude_sets(..) }
RECURSIVE ExcludeAllSets(_, _)
ExcludeAllSets(sets, enc) ==
    IF sets = <<>> THEN enc
    ELSE ExcludeAllSets(Tail(sets), ExcludeSets(Head(sets), enc))

\* for solution in &input.history { if !exclude_pairs { continue } .. }
RECURSIVE ExcludeHistory(_, _)
ExcludeHistory(history, enc) ==
    IF history = <<>> THEN enc
    ELSE ExcludeHistory(Tail(history),
                        IF ~Head(history).exclude_pairs THEN enc
                        ELSE ExcludePairs(Head(history).pairs, enc))

\* input.history.sort_by_key(|sol| Reverse(sol.year)): a stable insertion
\* of each entry after the entries whose year is not smaller
RECURSIVE SortByYearDesc(_)
SortByYearDesc(h) ==
    IF h = <<>> THEN <<>>
    ELSE LET rest == SortByYearDesc(SubSeq(h, 1, Len(h) - 1))
             last == h[Len(h)]
             k == Cardinality({i \in 1..Len(rest) : rest[i].year >= last.year})
         IN  SubSeq(rest, 1, k) \o <<last>> \o SubSeq(rest, k + 1, Len(rest))

\* The formula main builds before the loop
Encoded(inp) ==
    ExcludeHistory(SortByYearDesc(inp.history),
      IncludePairs(inp.whitelist,
        ExcludePairs(inp.blacklist,
          ExcludeAllSets(inp.blacklist_sets,
            EncodeSecretSantaRules(inp.people, NewEncoder)))))

Init ==
    /\ \E n \in 0..MaxPeople : \E S \in RuleSets(n, MaxRules) : input = InputOf(n, S)
    /\ pc = "parsed"
    /\ encoder = NewEncoder
    /\ attempt = 0
    /\ solutions = <<>>
    /\ nUnsat = 0
    /\ firstUnsat = 0
    /\ chosen = {}

\* input.check_history() returns
CheckHistoryOk ==
    /\ pc = "parsed"
    /\ CheckHistory(input)
    /\ pc' = "checked"
    /\ UNCHANGED <<input, encoder, attempt, solutions, nUnsat, firstUnsat, chosen>>

\* input.check_history() panics
CheckHistoryPanic ==
    /\ pc = "parsed"
    /\ ~CheckHistory(input)
    /\ pc' = "history_panic"
    /\ UNCHANGED <<input, encoder, attempt, solutions, nUnsat, firstUnsat, chosen>>

\* CadicalEncoder::new() and every constraint added before the loop
Encode ==
    /\ pc = "checked"
    /\ input' = [input EXCEPT !.history = SortByYearDesc(@)]
    /\ encoder' = Encoded(input)
    /\ pc' = "loop"
    /\ UNCHANGED <<attempt, solutions, nUnsat, firstUnsat, chosen>>

\* `for _ in 0..100`: where control is after the iteration that makes `done`
\* iterations complete
AfterIteration(done) == IF done < MaxAttempts THEN "loop" ELSE "select"

\* The iteration without its exclude_pairs call
SolveSome_NoExclude ==
    /\ pc = "loop"
    /\ \E model \in Models(encoder) : solutions' = Append(solutions, ExtractPos(model))
    /\ attempt' = attempt + 1
    /\ pc' = AfterIteration(attempt + 1)
    /\ UNCHANGED <<input, encoder, nUnsat, firstUnsat, chosen>>

\* The iteration with exclusion 1) of its comment, exclude_some_pairs
SolveSome_SomePairs ==
    /\ pc = "loop"
    /\ \E model \in Models(encoder) :
          LET pairs == ExtractPos(model)
          IN  /\ encoder' = ExcludeSomePairs(pairs, encoder)
              /\ solutions' = Append(solutions, pairs)
    /\ attempt' = attempt + 1
    /\ pc' = AfterIteration(attempt + 1)
    /\ UNCHANGED <<input, nUnsat, firstUnsat, chosen>>

\* One iteration of `for _ in 0..100` in which solve() returns Some(model)
SolveSome ==
    /\ pc = "loop"
    /\ \E model \in Models(encoder) :
          LET pairs == ExtractPos(model)
          IN  /\ encoder' = ExcludePairs(pairs, encoder)
              /\ solutions' = Append(solutions, pairs)
    /\ attempt' = attempt + 1
    /\ pc' = AfterIteration(attempt + 1)
    /\ UNCHANGED <<input, nUnsat, firstUnsat, chosen>>

\* The iteration leaving the loop (a `break`) when solve() returns None
SolveNone_Break ==
    /\ pc = "loop"
    /\ Models(encoder) = {}
    /\ attempt' = attempt + 1
    /\ nUnsat' = nUnsat + 1
    /\ firstUnsat' = IF firstUnsat = 0 THEN attempt + 1 ELSE firstUnsat
    /\ pc' = "select"
    /\ UNCHANGED <<input, encoder, solutions, chosen>>

\* One iteration in which solve() returns None: the body is skipped and the
\* loop goes on to its next iteration
SolveNone ==
    /\ pc = "loop"
    /\ Models(encoder) = {}
    /\ attempt' = attempt + 1
    /\ nUnsat' = nUnsat + 1
    /\ firstUnsat' = IF firstUnsat = 0 THEN attempt + 1 ELSE firstUnsat
    /\ pc' = AfterIteration(attempt + 1)
    /\ UNCHANGED <<input, encoder, solutions, chosen>>

\* solutions.is_empty(): "No secret santa solutions found!", exit(1)
NoSolutions ==
    /\ pc = "select"
    /\ solutions = <<>>
    /\ pc' = "exit1"
    /\ UNCHANGED <<input, encoder, attempt, solutions, nUnsat, firstUnsat, chosen>>

\* solutions.swap_remove(i) for a random index i
SwapRemove(s, i) ==
    [k \in 1..(Len(s) - 1) |-> IF k = i THEN s[Len(s)] ELSE s[k]]

Choose ==
    /\ pc = "select"
    /\ solutions # <<>>
    /\ \E i \in 1..Len(solutions) :
          /\ chosen' = {solutions[i]}
          /\ solutions' = SwapRemove(solutions, i)
    /\ pc' = "chosen"
    /\ UNCHANGED <<input, encoder, attempt, nUnsat, firstUnsat>>

\* compose_message for every pair: the giver's email is looked up in people
ComposeOk ==
    /\ pc = "chosen"
    /\ \A pairs \in chosen : \A pair \in pairs : pair[1] \in PeopleNames
    /\ pc' = "done"
    /\ UNCHANGED <<input, encoder, attempt, solutions, nUnsat, firstUnsat, chosen>>

\* .expect("Failed to find email address")
ComposePanic ==
    /\ pc = "chosen"
    /\ \E pairs \in chosen : \E pair \in pairs : pair[1] \notin PeopleNames
    /\ pc' = "compose_panic"
    /\ UNCHANGED <<input, encoder, attempt, solutions, nUnsat, firstUnsat, chosen>>

Next ==
    \/ CheckHistoryOk
    \/ CheckHistoryPanic
    \/ Encode
    \/ SolveSome
    \/ SolveNone
    \/ NoSolutions
    \/ Choose
    \/ ComposeOk
    \/ ComposePanic

Spec == Init /\ [][Next]_vars

(* ------------------------------ properties ----------------------------- *)
\* The Assignments produced so far: those in `solutions` and the drawn one
Produced == Range(solutions) \cup chosen

NFound == Len(solutions) + Cardinality(chosen)

NoRules ==
    /\ input.whitelist = {} /\ input.blacklist = {}
    /\ input.blacklist_sets = <<>> /\ input.history = <<>>

\* Every name a rule of the Input uses
RuleNames ==
    {l[i] : l \in input.whitelist \cup input.blacklist, i \in {1, 2}}
    \cup UNION {Range(input.blacklist_sets[k]) : k \in 1..Len(input.blacklist_sets)}
    \cup UNION {{l[i] : l \in input.history[k].pairs, i \in {1, 2}} :
                   k \in 1..Len(input.history)}

\* The pairs the rules forbid: the blacklist, both members in one blacklist
\* set, and the pairs of the history entries flagged exclude_pairs
Forbidden ==
    input.blacklist
    \cup UNION {{Pair(a, b) : a \in Range(input.blacklist_sets[k]),
                              b \in Range(input.blacklist_sets[k])} :
                   k \in 1..Len(input.blacklist_sets)}
    \cup UNION {IF input.history[k].exclude_pairs THEN input.history[k].pairs ELSE {} :
                   k \in 1..Len(input.history)}

ThreeCycle(a, b, c) == {Pair(a, b), Pair(b, c), Pair(c, a)}

\* The permutations of the roster, as sets of pairs, without fixed point and
\* 2-cycle, with every whitelist pair and no forbidden pair
ValidAssignments ==
    LET R == PeopleNames
        perms == {f \in [R -> R] : \A r \in R : \E p \in R : f[p] = r}
    IN  {a \in {{Pair(p, f[p]) : p \in R} : f \in perms} :
            /\ \A e \in a : e[1] # e[2] /\ Pair(e[2], e[1]) \notin a
            /\ input.whitelist \subseteq a
            /\ a \cap Forbidden = {}}

\* C1: in every Assignment produced, every participant of the roster is the
\* giver of exactly one pair and the receiver of exactly one pair.
C1_EachParticipantOnce ==
    \A a \in Produced : \A p \in PeopleNames :
        /\ Cardinality({e \in a : e[1] = p}) = 1
        /\ Cardinality({e \in a : e[2] = p}) = 1

\* C2: in every Assignment produced, for all participants A and B (A = B
\* included), (A,B) present implies (B,A) absent.
C2_NoSelfNoReciprocity ==
    \A a \in Produced : \A A \in PeopleNames, B \in PeopleNames :
        Pair(A, B) \in a => Pair(B, A) \notin a

\* C2 witness: a cycle of length 3 over the roster has been produced
C2_Witness == ThreeCycle(1, 2, 3) \in Produced

\* C3: no Assignment produced holds a blacklist pair, a pair within one
\* blacklist set (either direction) or a pair of a flagged history entry; and
\* the formula built before the loop forces nothing false beyond those pairs
\* and the self pairs, so an unflagged history entry forbids nothing.
C3_ForbiddenPairsAbsent ==
    /\ \A a \in Produced : a \cap Forbidden = {}
    /\ (pc = "loop" /\ attempt = 0) =>
           encoder.nots = Forbidden \cup {Pair(p, p) : p \in PeopleNames}

\* C3 witness: an Assignment was produced while a rule forbade a pair of two
\* different participants
C3_Witness ==
    /\ Produced # {}
    /\ \E e \in Forbidden : e[1] # e[2] /\ {e[1], e[2]} \subseteq PeopleNames

\* C4: every whitelist pair is in every Assignment produced.
C4_WhitelistPresent == \A a \in Produced : input.whitelist \subseteq a

\* C4 witness: an Assignment was produced under a non-empty whitelist
C4_Witness == input.whitelist # {} /\ Produced # {}

\* C5: Assignments at different positions of `solutions` share no pair (an
\* empty Assignment shares none with any other).
C5_EdgeDisjoint ==
    \A i \in 1..Len(solutions) :
        solutions[i] # {} =>
            \A j \in 1..Len(solutions) : i # j => solutions[i] \cap solutions[j] = {}

\* C5 witness: two non-empty Assignments are held
C5_Witness == Len(solutions) >= 2 /\ solutions[1] # {} /\ solutions[2] # {}

\* C6: if a rule uses a name that is no participant, nothing is added to the
\* encoder, no solve is made and no Assignment is produced.
C6_UnknownNameIsFatal ==
    ~(RuleNames \subseteq PeopleNames) =>
        /\ encoder = NewEncoder
        /\ attempt = 0
        /\ Produced = {}

C8_FirstSolveExact ==
    /\ (pc = "loop" /\ attempt = 0) =>
           {ExtractPos(m) : m \in Models(encoder)} = ValidAssignments
    /\ pc = "exit1" => ValidAssignments = {}
    /\ pc \in {"chosen", "done", "compose_panic"} => ValidAssignments # {}
    /\ (input.people = <<1, 2, 3>> /\ NoRules) =>
           /\ ValidAssignments = {ThreeCycle(1, 2, 3), ThreeCycle(1, 3, 2)}
           /\ NFound <= 2
    /\ (input.people = <<1, 2, 3>> /\ input.whitelist = {Pair(2, 3)}) =>
           Produced \subseteq {ThreeCycle(1, 2, 3)}

\* C9 as stated: every iteration advances the bounded loop counter, and every
\* iteration that finds an Assignment forbids a pair not forbidden before.
C9_EveryFindShrinks ==
    [][/\ pc = "loop" => attempt' = attempt + 1 /\ attempt' <= MaxAttempts
       /\ Len(solutions') > Len(solutions) =>
              encoder'.nots \ encoder.nots # {}]_vars

\* C9 amended: every iteration advances the bounded loop counter, and every
\* iteration that finds an Assignment for a non-empty roster, or finds a
\* non-empty Assignment, forbids a pair not forbidden before.
C9_NonEmptyFindShrinks ==
    [][/\ pc = "loop" => attempt' = attempt + 1 /\ attempt' <= MaxAttempts
       /\ Len(solutions') > Len(solutions) =>
              ((input.people # <<>> \/ solutions'[Len(solutions')] # {}) =>
                   encoder'.nots \ encoder.nots # {})]_vars

\* C9 witness: an iteration has found an Assignment for a non-empty roster
C9_Witness == pc = "loop" /\ input.people # <<>> /\ Len(solutions) = 1

\* C10 as stated: a roster of n >= 1 yields at most n - 1 (and at most 100)
\* Assignments, and a roster of one always ends in the 'no solutions' report.
C10_AtMostNMinusOne ==
    Len(input.people) >= 1 =>
        /\ NFound <= Len(input.people) - 1
        /\ NFound <= MaxAttempts
        /\ Len(input.people) = 1 =>
               pc \in {"parsed", "checked", "loop", "select", "exit1"}

\* C10 amended: ... and a roster of one ends in the 'no solutions' report
\* unless check_history panics first.
C10_AtMostNMinusOneOrPanic ==
    Len(input.people) >= 1 =>
        /\ NFound <= Len(input.people) - 1
        /\ NFound <= MaxAttempts
        /\ Len(input.people) = 1 =>
               \/ pc \in {"parsed", "checked", "loop", "select", "exit1"}
               \/ pc = "history_panic" /\ ~CheckHistory(input)

\* C10 witness: a roster of three has yielded its two Assignments
C10_Witness == Len(input.people) = 3 /\ NFound = 2 /\ pc = "done"

====
